---- MODULE Spec2Model ----
(***************************************************************************)
(* Model of Invent.py: the in-memory product store (Inventory), the       *)
(* transaction log (TransactionLogger), the CSV save/load (FileManager),  *)
(* the turnover report (StatisticalReport) and the command loop that      *)
(* drives them (Menu.run).                                                 *)
(*                                                                         *)
(* A Python str is a sequence of characters; a run of letters that no     *)
(* conversion looks into is kept as one element ("Widget").  A price is a *)
(* float that was read from decimal text with at most two fractional      *)
(* digits; it is represented by its number of hundredths.  The timestamp  *)
(* of a Transaction (datetime.now()) is not modelled.  Of the menu, the   *)
(* choices that only print (3, 4, 5, 7 and an invalid choice) are not     *)
(* modelled, nor is the total printed by choice 10.                       *)
(***************************************************************************)
EXTENDS Integers, Sequences, FiniteSets, TLC

VARIABLES
    pc,            \* "menu": the loop waits for a choice; "exited"; "crashed"
    inventory,     \* Menu.inventory.products: the dict, in insertion order
    transactions,  \* Menu.logger.transactions
    file,          \* the CSV file on disk: NoFile or FileOf(its lines)
    cmd,           \* the last command read: its choice and its input texts
    raised,        \* the exception the last command raised ("None" if none)
    alerts,        \* the low-stock alerts the last command printed
    report,        \* the turnover lines the last command printed
    iterations     \* the number of iterations of the loop of run() so far

vars == <<pc, inventory, transactions, file, cmd, raised, alerts, report, iterations>>

----------------------------------------------------------------------------
(* Bounds of the model *)

\* a session is followed for at most MaxIterations commands
MaxIterations == 5
\* the log holds at most MaxLog transactions
MaxLog == 3
\* a quantity update keeps |quantity| <= MaxQty
MaxQty == 2

----------------------------------------------------------------------------
(* Python values *)

\* Python's None where a str is expected (csv restval)
PyNone == <<"<None>">>

\* dict.get's default
None == [none |-> TRUE]

DigitChars == <<"0", "1", "2", "3", "4", "5", "6", "7", "8", "9">>

IsDigit(c) == \E d \in 1..10 : DigitChars[d] = c

DigitVal(c) == (CHOOSE d \in 1..10 : DigitChars[d] = c) - 1

RECURSIVE Digits(_)
\* the decimal digits of a natural number
Digits(n) ==
    IF n < 10 THEN <<DigitChars[n + 1]>>
    ELSE Digits(n \div 10) \o <<DigitChars[(n % 10) + 1]>>

RECURSIVE DigitsVal(_)
\* the value of a non-empty sequence of digits
DigitsVal(s) ==
    IF Len(s) = 1 THEN DigitVal(s[1])
    ELSE 10 * DigitsVal(SubSeq(s, 1, Len(s) - 1)) + DigitVal(s[Len(s)])

AllDigits(s) == \A i \in 1..Len(s) : IsDigit(s[i])

RECURSIVE Strip(_)
\* str.strip() as int() and float() apply it to their argument
Strip(s) ==
    IF s = <<>> THEN s
    ELSE IF s[1] = " " THEN Strip(Tail(s))
    ELSE IF s[Len(s)] = " " THEN Strip(SubSeq(s, 1, Len(s) - 1))
    ELSE s

\* str(int), as csv.writer writes an int
FormatInt(n) == IF n < 0 THEN <<"-">> \o Digits(-n) ELSE Digits(n)

\* the sign and the unsigned rest of a stripped numeric text
SignOf(s) == IF s # <<>> /\ s[1] = "-" THEN -1 ELSE 1

Unsigned(s) == IF s # <<>> /\ s[1] \in {"-", "+"} THEN Tail(s) ELSE s

\* int(text): [err, val]
ParseInt(text) ==
    IF text = PyNone THEN [err |-> "TypeError", val |-> 0]
    ELSE LET s == Strip(text)
             u == Unsigned(s)
         IN IF u # <<>> /\ AllDigits(u)
            THEN [err |-> "None", val |-> SignOf(s) * DigitsVal(u)]
            ELSE [err |-> "ValueError", val |-> 0]

\* repr(float) of a price of h hundredths, as csv.writer writes a float
FormatFloat(h) ==
    LET a == IF h < 0 THEN -h ELSE h
        f == a % 100
        frac == IF f % 10 = 0 THEN <<DigitChars[(f \div 10) + 1]>>
                ELSE <<DigitChars[(f \div 10) + 1], DigitChars[(f % 10) + 1]>>
    IN (IF h < 0 THEN <<"-">> ELSE <<>>) \o Digits(a \div 100) \o <<".">> \o frac

\* the position of the decimal point, 0 if there is none
PointAt(u) ==
    IF \E i \in 1..Len(u) : u[i] = "."
    THEN CHOOSE i \in 1..Len(u) : u[i] = "." /\ \A j \in 1..(i - 1) : u[j] # "."
    ELSE 0

\* float(text): [err, val], val in hundredths.  Texts with an exponent, inf,
\* nan or more than two fractional digits are outside the modelled floats.
ParseFloat(text) ==
    IF text = PyNone THEN [err |-> "TypeError", val |-> 0]
    ELSE LET s == Strip(text)
             u == Unsigned(s)
             p == PointAt(u)
             ip == IF p = 0 THEN u ELSE SubSeq(u, 1, p - 1)
             fp == IF p = 0 THEN <<>> ELSE SubSeq(u, p + 1, Len(u))
             iv == IF ip = <<>> THEN 0 ELSE DigitsVal(ip)
             fv == IF fp = <<>> THEN 0
                   ELSE IF Len(fp) = 1 THEN 10 * DigitVal(fp[1])
                   ELSE DigitsVal(fp)
         IN IF AllDigits(ip) /\ AllDigits(fp) /\ Len(ip) + Len(fp) > 0
            THEN IF Len(fp) <= 2
                 THEN [err |-> "None", val |-> SignOf(s) * (100 * iv + fv)]
                 ELSE [err |-> "OutOfModel", val |-> 0]
            ELSE [err |-> "ValueError", val |-> 0]

----------------------------------------------------------------------------
(* csv.writer and csv.DictReader (excel dialect) *)

RECURSIVE DoubleQuotes(_)
\* every quote character of a field doubled
DoubleQuotes(f) ==
    IF f = <<>> THEN <<>>
    ELSE (IF f[1] = "\"" THEN <<"\"", "\"">> ELSE <<f[1]>>) \o DoubleQuotes(Tail(f))

NeedsQuotes(f) == \E i \in 1..Len(f) : f[i] \in {",", "\"", "\r", "\n"}

\* a writer that never quotes: the field is written as it is
WriteFieldRaw(f) == IF f = PyNone THEN <<>> ELSE f

\* one field as csv.writer writes it (QUOTE_MINIMAL; None is written empty)
WriteField(f) ==
    IF f = PyNone THEN <<>>
    ELSE IF NeedsQuotes(f) THEN <<"\"">> \o DoubleQuotes(f) \o <<"\"">>
    ELSE f

RECURSIVE WriteRow(_)
\* writer.writerow: the fields joined by the delimiter (the line terminator
\* is the boundary between two elements of the file)
WriteRow(fields) ==
    IF Len(fields) = 1 THEN WriteField(fields[1])
    ELSE WriteField(fields[1]) \o <<",">> \o WriteRow(Tail(fields))

RECURSIVE ReadChars(_, _, _, _, _)
\* the reader's state machine over one line, from character i on
ReadChars(line, i, state, field, fields) ==
    IF i > Len(line)
    THEN IF state = "START_FIELD"
         THEN (IF fields = <<>> THEN <<>> ELSE Append(fields, <<>>))
         ELSE Append(fields, field)
    ELSE LET c == line[i] IN
         CASE state = "START_FIELD" ->
                IF c = "\"" THEN ReadChars(line, i + 1, "IN_QUOTED", <<>>, fields)
                ELSE IF c = ","
                     THEN ReadChars(line, i + 1, "START_FIELD", <<>>, Append(fields, <<>>))
                     ELSE ReadChars(line, i + 1, "IN_FIELD", <<c>>, fields)
           [] state = "IN_FIELD" ->
                IF c = ","
                THEN ReadChars(line, i + 1, "START_FIELD", <<>>, Append(fields, field))
                ELSE ReadChars(line, i + 1, "IN_FIELD", Append(field, c), fields)
           [] state = "IN_QUOTED" ->
                IF c = "\"" THEN ReadChars(line, i + 1, "QUOTE_IN_QUOTED", field, fields)
                ELSE ReadChars(line, i + 1, "IN_QUOTED", Append(field, c), fields)
           [] state = "QUOTE_IN_QUOTED" ->
                IF c = "\"" THEN ReadChars(line, i + 1, "IN_QUOTED", Append(field, c), fields)
                ELSE IF c = ","
                     THEN ReadChars(line, i + 1, "START_FIELD", <<>>, Append(fields, field))
                     ELSE ReadChars(line, i + 1, "IN_FIELD", Append(field, c), fields)

\* csv.reader on one line: its fields (<<>> for an empty line)
ReadRow(line) == ReadChars(line, 1, "START_FIELD", <<>>, <<>>)

\* row[col] of a DictReader row: [err, val]; a column the header lacks is a
\* KeyError, a column the row is too short for is None
Lookup(fieldnames, row, col) ==
    IF \A i \in 1..Len(fieldnames) : fieldnames[i] # col
    THEN [err |-> "KeyError", val |-> PyNone]
    ELSE LET i == CHOOSE k \in 1..Len(fieldnames) :
                      /\ fieldnames[k] = col
                      /\ \A j \in (k + 1)..Len(fieldnames) : fieldnames[j] # col
         IN [err |-> "None", val |-> IF i <= Len(row) THEN row[i] ELSE PyNone]

----------------------------------------------------------------------------
(* Product *)

Product(product_id, name, category, price, quantity, reorder_level) ==
    [product_id |-> product_id, name |-> name, category |-> category,
     price |-> price, quantity |-> quantity, reorder_level |-> reorder_level]

\* self.quantity += amount
update_quantity(p, amount) == [p EXCEPT !.quantity = @ + amount]

\* a comparison that misses the boundary quantity = reorder_level
is_low_stock_strict(p) == p.quantity < p.reorder_level

\* return self.quantity <= self.reorder_level
is_low_stock(p) == p.quantity <= p.reorder_level

----------------------------------------------------------------------------
(* Inventory: the dict products, a sequence of entries in insertion order *)

HasKey(products, k) == \E i \in 1..Len(products) : products[i].key = k

IndexOf(products, k) == CHOOSE i \in 1..Len(products) : products[i].key = k

\* products[k] = v: an existing key keeps its place
DictSet(products, k, v) ==
    IF HasKey(products, k)
    THEN [products EXCEPT ![IndexOf(products, k)] = [key |-> k, value |-> v]]
    ELSE Append(products, [key |-> k, value |-> v])

\* products.pop(k, None)
DictPop(products, k) == SelectSeq(products, LAMBDA e : e.key # k)

\* products.get(k)
DictGet(products, k) ==
    IF HasKey(products, k) THEN products[IndexOf(products, k)].value ELSE None

\* the alert check_low_stock prints for a product, if any
check_low_stock(p) ==
    IF is_low_stock(p) THEN <<[name |-> p.name, quantity |-> p.quantity]>> ELSE <<>>

\* an add that keeps the entry an id already has
add_product_keep_first(products, p) ==
    IF HasKey(products, p.product_id) THEN products
    ELSE DictSet(products, p.product_id, p)

\* self.products[product.product_id] = product
add_product(products, p) == DictSet(products, p.product_id, p)

remove_product(products, product_id) == DictPop(products, product_id)

get_product(products, product_id) == DictGet(products, product_id)

----------------------------------------------------------------------------
(* FileManager *)

\* the file system's answer for a path: a missing file, or a file and its lines
NoFile == [exists |-> FALSE, lines |-> <<>>]

FileOf(lines) == [exists |-> TRUE, lines |-> lines]

Header ==
    << <<"product_id">>, <<"name">>, <<"category">>,
       <<"price">>, <<"quantity">>, <<"reorder_level">> >>

\* the row save_inventory writes for one product
ProductRow(p) ==
    WriteRow(<< FormatInt(p.product_id), p.name, p.category,
                FormatFloat(p.price), FormatInt(p.quantity),
                FormatInt(p.reorder_level) >>)

\* save_inventory: the lines of the file it writes
save_inventory(products) ==
    <<WriteRow(Header)>> \o [i \in 1..Len(products) |-> ProductRow(products[i].value)]

\* the first exception of a sequence of evaluations, "None" if none raised
FirstError(errs) ==
    IF \A i \in 1..Len(errs) : errs[i] = "None" THEN "None"
    ELSE errs[CHOOSE i \in 1..Len(errs) :
                  errs[i] # "None" /\ \A j \in 1..(i - 1) : errs[j] = "None"]

\* the Product load_inventory builds from one DictReader row: [raised, product]
RowProduct(fieldnames, row) ==
    LET id  == Lookup(fieldnames, row, <<"product_id">>)
        idv == ParseInt(id.val)
        nm  == Lookup(fieldnames, row, <<"name">>)
        ct  == Lookup(fieldnames, row, <<"category">>)
        pr  == Lookup(fieldnames, row, <<"price">>)
        prv == ParseFloat(pr.val)
        qt  == Lookup(fieldnames, row, <<"quantity">>)
        qtv == ParseInt(qt.val)
        ro  == Lookup(fieldnames, row, <<"reorder_level">>)
        rov == ParseInt(ro.val)
    IN [raised  |-> FirstError(<<id.err, idv.err, nm.err, ct.err, pr.err,
                                 prv.err, qt.err, qtv.err, ro.err, rov.err>>),
        product |-> Product(idv.val, nm.val, ct.val, prv.val, qtv.val, rov.val)]

RECURSIVE LoadRows(_, _, _, _, _)
\* the loop of load_inventory from line i on: [raised, products, alerts]
LoadRows(fieldnames, lines, i, products, printed) ==
    IF i > Len(lines) THEN [raised |-> "None", products |-> products, alerts |-> printed]
    ELSE LET row == ReadRow(lines[i]) IN
         IF row = <<>> THEN LoadRows(fieldnames, lines, i + 1, products, printed)
         ELSE LET r == RowProduct(fieldnames, row) IN
              IF r.raised # "None"
              THEN [raised |-> r.raised, products |-> products, alerts |-> printed]
              ELSE LoadRows(fieldnames, lines, i + 1, add_product(products, r.product),
                            printed \o check_low_stock(r.product))

\* a load that adds the rows to the products the shell already holds
load_inventory_merge(f) ==
    IF ~f.exists
    THEN [raised |-> "FileNotFoundError", products |-> <<>>, alerts |-> <<>>]
    ELSE IF f.lines = <<>>
    THEN [raised |-> "None", products |-> inventory, alerts |-> <<>>]
    ELSE LoadRows(ReadRow(f.lines[1]), f.lines, 2, inventory, <<>>)

\* load_inventory on the file f: [raised, products, alerts]; products is the
\* new Inventory as far as it was built when the function returned or raised
load_inventory(f) ==
    IF ~f.exists
    THEN [raised |-> "FileNotFoundError", products |-> <<>>, alerts |-> <<>>]
    ELSE IF f.lines = <<>>
    THEN [raised |-> "None", products |-> <<>>, alerts |-> <<>>]
    ELSE LoadRows(ReadRow(f.lines[1]), f.lines, 2, <<>>, <<>>)

\* an assignment that installs whatever load_inventory had built
AssignLoadedPartial(old, r) == r.products

\* self.inventory = FileManager.load_inventory(...): the assignment happens
\* only when the call returns
AssignLoaded(old, r) == IF r.raised = "None" THEN r.products ELSE old

----------------------------------------------------------------------------
(* Transaction, TransactionLogger *)

Transaction(transaction_id, product_id, quantity, transaction_type) ==
    [transaction_id |-> transaction_id, product_id |-> product_id,
     quantity |-> quantity, transaction_type |-> transaction_type]

log(trs, t) == Append(trs, t)

\* ttype = "IN" if qty > 0 else "OUT"
TransactionType(qty) == IF qty > 0 THEN "IN" ELSE "OUT"

\* an id that counts from 0
NextTransactionIdZeroBased(trs) == Len(trs)

\* len(self.logger.transactions) + 1
NextTransactionId(trs) == Len(trs) + 1

----------------------------------------------------------------------------
(* StatisticalReport *)

\* abs() left out
AbsNone(n) == n

\* abs()
Abs(n) == IF n < 0 THEN -n ELSE n

RECURSIVE Accumulate(_, _, _)
\* the first loop of turnover_report from transaction i on: the turnover dict
Accumulate(trs, i, turnover) ==
    IF i > Len(trs) THEN turnover
    ELSE LET t == trs[i] IN
         IF t.transaction_type = "OUT"
         THEN Accumulate(trs, i + 1,
                  DictSet(turnover, t.product_id,
                          (IF HasKey(turnover, t.product_id)
                           THEN DictGet(turnover, t.product_id) ELSE 0) + Abs(t.quantity)))
         ELSE Accumulate(trs, i + 1, turnover)

\* turnover_report: the lines it prints, one per item of products
turnover_report(products, trs) ==
    LET turnover == Accumulate(trs, 1, <<>>) IN
    [i \in 1..Len(products) |->
        [name |-> products[i].value.name,
         units |-> IF HasKey(turnover, products[i].key)
                   THEN DictGet(turnover, products[i].key) ELSE 0]]

----------------------------------------------------------------------------
(* The texts the operator types and the files found on disk *)

IdInputs == { <<"1">>, <<"2">>, <<"x">> }

NameInputs == { <<"a", ",", "\"", "b">> }

CategoryInputs == { <<"Hardware">> }

PriceInputs == { <<"2", ".", "5", "0">> }

QuantityInputs == { <<"0">>, <<"1">> }

ReorderInputs == { <<"0">> }

DeltaInputs == { <<"-", "1">>, <<"0">>, <<"1">> }

\* "inv.csv" names the file; the directory of the other path does not exist
FileNameInputs == { "inv.csv", "nodir/inv.csv" }

\* a well-formed file whose columns are not in the order save_inventory writes
GoodFile == FileOf(
    << <<"name", ",", "product_id", ",", "category", ",", "price", ",",
         "quantity", ",", "reorder_level">>,
       <<"Gadget", ",", "2", ",", "Tools", ",", "0", ".", "2", "5", ",", "3", ",", "3">> >>)

\* a file whose second row has a malformed quantity
BadRowFile == FileOf(
    << WriteRow(Header),
       <<"1", ",", "Bolt", ",", "Tools", ",", "1", ".", "5", ",", "0", ",", "1">>,
       <<"2", ",", "Nut", ",", "Tools", ",", "1", ".", "5", ",", "x", ",", "1">> >>)

ExternalFiles == { GoodFile, BadRowFile }

----------------------------------------------------------------------------
(* Menu *)

Command(choice, input) == [choice |-> choice, input |-> input]

Init ==
    /\ pc = "menu"
    /\ inventory = <<>>
    /\ transactions = <<>>
    /\ file \in ExternalFiles
    /\ cmd = Command("", <<>>)
    /\ raised = "None"
    /\ alerts = <<>>
    /\ report = <<>>
    /\ iterations = 0

\* self.display(); choice = input("Choice: ")
ReadChoice ==
    /\ pc = "menu"
    /\ iterations < MaxIterations
    /\ iterations' = iterations + 1

\* an exception leaves run(): nothing in the loop catches it
Crash(e) ==
    /\ pc' = "crashed"
    /\ raised' = e

Continue ==
    /\ pc' = "menu"
    /\ raised' = "None"

\* choice "1"
AddProduct ==
    /\ ReadChoice
    /\ \E id \in IdInputs, name \in NameInputs, category \in CategoryInputs,
          price \in PriceInputs, quantity \in QuantityInputs, reorder \in ReorderInputs :
          LET idv == ParseInt(id)
              prv == ParseFloat(price)
              qtv == ParseInt(quantity)
              rov == ParseInt(reorder)
              all == <<id, name, category, price, quantity, reorder>>
              p   == Product(idv.val, name, category, prv.val, qtv.val, rov.val)
          IN IF idv.err # "None"
             THEN /\ Crash(idv.err)
                  /\ cmd' = Command("1", SubSeq(all, 1, 1))
                  /\ alerts' = <<>>
                  /\ UNCHANGED inventory
             ELSE IF prv.err # "None"
             THEN /\ Crash(prv.err)
                  /\ cmd' = Command("1", SubSeq(all, 1, 4))
                  /\ alerts' = <<>>
                  /\ UNCHANGED inventory
             ELSE IF qtv.err # "None"
             THEN /\ Crash(qtv.err)
                  /\ cmd' = Command("1", SubSeq(all, 1, 5))
                  /\ alerts' = <<>>
                  /\ UNCHANGED inventory
             ELSE IF rov.err # "None"
             THEN /\ Crash(rov.err)
                  /\ cmd' = Command("1", all)
                  /\ alerts' = <<>>
                  /\ UNCHANGED inventory
             ELSE /\ Continue
                  /\ cmd' = Command("1", all)
                  /\ inventory' = add_product(inventory, p)
                  /\ alerts' = check_low_stock(p)
    /\ report' = <<>>
    /\ UNCHANGED <<transactions, file>>

\* choice "2"
RemoveProduct ==
    /\ ReadChoice
    /\ \E id \in IdInputs :
          LET idv == ParseInt(id) IN
          /\ cmd' = Command("2", <<id>>)
          /\ IF idv.err # "None"
             THEN Crash(idv.err) /\ UNCHANGED inventory
             ELSE Continue /\ inventory' = remove_product(inventory, idv.val)
    /\ alerts' = <<>>
    /\ report' = <<>>
    /\ UNCHANGED <<transactions, file>>

\* choice "6"
UpdateQuantity ==
    /\ ReadChoice
    /\ \E id \in IdInputs, delta \in DeltaInputs :
          LET idv     == ParseInt(id)
              qty     == ParseInt(delta)
              product == get_product(inventory, idv.val)
              updated == update_quantity(product, qty.val)
          IN IF idv.err # "None"
             THEN /\ Crash(idv.err)
                  /\ cmd' = Command("6", <<id>>)
                  /\ alerts' = <<>>
                  /\ UNCHANGED <<inventory, transactions>>
             ELSE IF qty.err # "None"
             THEN /\ Crash(qty.err)
                  /\ cmd' = Command("6", <<id, delta>>)
                  /\ alerts' = <<>>
                  /\ UNCHANGED <<inventory, transactions>>
             ELSE IF product # None
             THEN /\ Len(transactions) < MaxLog
                  /\ -MaxQty <= updated.quantity
                  /\ updated.quantity <= MaxQty
                  /\ Continue
                  /\ cmd' = Command("6", <<id, delta>>)
                  /\ inventory' = [inventory EXCEPT
                                      ![IndexOf(inventory, idv.val)].value = updated]
                  /\ transactions' =
                        log(transactions,
                            Transaction(NextTransactionId(transactions), idv.val,
                                        qty.val, TransactionType(qty.val)))
                  /\ alerts' = check_low_stock(updated)
             ELSE /\ Continue
                  /\ cmd' = Command("6", <<id, delta>>)
                  /\ alerts' = <<>>
                  /\ UNCHANGED <<inventory, transactions>>
    /\ report' = <<>>
    /\ UNCHANGED file

\* choice "8"
SaveToCsv ==
    /\ ReadChoice
    /\ \E filename \in FileNameInputs :
          /\ cmd' = Command("8", <<filename>>)
          /\ IF filename = "inv.csv"
             THEN Continue /\ file' = FileOf(save_inventory(inventory))
             ELSE Crash("FileNotFoundError") /\ UNCHANGED file
    /\ alerts' = <<>>
    /\ report' = <<>>
    /\ UNCHANGED <<inventory, transactions>>

\* choice "9"
LoadFromCsv ==
    /\ ReadChoice
    /\ \E filename \in FileNameInputs :
          LET r == load_inventory(IF filename = "inv.csv" THEN file ELSE NoFile) IN
          /\ cmd' = Command("9", <<filename>>)
          /\ IF r.raised = "None" THEN Continue ELSE Crash(r.raised)
          /\ inventory' = AssignLoaded(inventory, r)
          /\ alerts' = r.alerts
    /\ report' = <<>>
    /\ UNCHANGED <<transactions, file>>

\* choice "10"
StatisticalReports ==
    /\ ReadChoice
    /\ Continue
    /\ cmd' = Command("10", <<>>)
    /\ report' = turnover_report(inventory, transactions)
    /\ alerts' = <<>>
    /\ UNCHANGED <<inventory, transactions, file>>

\* choice "0"
Exit ==
    /\ ReadChoice
    /\ pc' = "exited"
    /\ raised' = "None"
    /\ cmd' = Command("0", <<>>)
    /\ alerts' = <<>>
    /\ report' = <<>>
    /\ UNCHANGED <<inventory, transactions, file>>

Next ==
    \/ AddProduct
    \/ RemoveProduct
    \/ UpdateQuantity
    \/ SaveToCsv
    \/ LoadFromCsv
    \/ StatisticalReports
    \/ Exit

Spec == Init /\ [][Next]_vars

----------------------------------------------------------------------------
(* What the last command was, read back from cmd *)

\* the last command was choice c and it returned to the menu
Done(c) == cmd.choice = c /\ raised = "None"

\* the product the last add built from its inputs
AddedProduct ==
    Product(ParseInt(cmd.input[1]).val, cmd.input[2], cmd.input[3],
            ParseFloat(cmd.input[4]).val, ParseInt(cmd.input[5]).val,
            ParseInt(cmd.input[6]).val)

\* the product id the last remove or update was addressed to
AddressedId == ParseInt(cmd.input[1]).val

\* the alert a product calls for
AlertFor(p) ==
    IF p.quantity > p.reorder_level THEN <<>>
    ELSE <<[name |-> p.name, quantity |-> p.quantity]>>

RECURSIVE FileProducts(_, _, _)
\* the products of the rows of a well-formed file, in file order
FileProducts(fieldnames, lines, i) ==
    IF i > Len(lines) THEN <<>>
    ELSE IF ReadRow(lines[i]) = <<>> THEN FileProducts(fieldnames, lines, i + 1)
    ELSE <<RowProduct(fieldnames, ReadRow(lines[i])).product>>
             \o FileProducts(fieldnames, lines, i + 1)

ProductsOfFile ==
    IF file.lines = <<>> THEN <<>>
    ELSE FileProducts(ReadRow(file.lines[1]), file.lines, 2)

\* the products inv are exactly the products ps: one entry for every id of
\* ps, and under it the last product of ps with that id
HoldsExactly(inv, ps) ==
    /\ {inv[i].key : i \in 1..Len(inv)} = {ps[j].product_id : j \in 1..Len(ps)}
    /\ \A i, j \in 1..Len(inv) : inv[i].key = inv[j].key => i = j
    /\ \A i \in 1..Len(inv) :
          \E j \in 1..Len(ps) :
             /\ ps[j] = inv[i].value
             /\ ps[j].product_id = inv[i].key
             /\ \A k \in (j + 1)..Len(ps) : ps[k].product_id # inv[i].key

RECURSIVE SumOut(_, _, _)
\* the sum of abs(quantity) over the OUT transactions k..Len(trs) of product pid
SumOut(trs, pid, k) ==
    IF k > Len(trs) THEN 0
    ELSE (IF trs[k].transaction_type = "OUT" /\ trs[k].product_id = pid
          THEN (IF trs[k].quantity < 0 THEN -trs[k].quantity ELSE trs[k].quantity)
          ELSE 0) + SumOut(trs, pid, k + 1)

----------------------------------------------------------------------------
(* The claims *)

\* C1: every transaction of the log has kind IN iff its quantity delta is
\* > 0 and kind OUT iff its delta is < 0, a delta of 0 included.
C1_KindMatchesSign ==
    \A k \in 1..Len(transactions) :
       /\ transactions[k].transaction_type = "IN" <=> transactions[k].quantity > 0
       /\ transactions[k].transaction_type = "OUT" <=> transactions[k].quantity < 0

\* C2: a quantity update addressed to an id that is not in the Inventory
\* reports a ProductNotFound failure.
C2_UpdateMissingReported ==
    ( /\ cmd.choice = "6"
      /\ Len(cmd.input) = 2
      /\ ParseInt(cmd.input[1]).err = "None"
      /\ ParseInt(cmd.input[2]).err = "None"
      /\ ~HasKey(inventory, AddressedId) )
    => raised = "ProductNotFound"

\* C3, as claimed: after a successful load the Inventory holds exactly the
\* products of the file and the log holds no transaction recorded before the
\* load (a load records none itself, so the log is empty).
C3_LoadReplacesBoth ==
    Done("9") => HoldsExactly(inventory, ProductsOfFile) /\ transactions = <<>>

\* C3, amended: a successful load replaces the Inventory by exactly the
\* products of the file and leaves the transaction log as it was.
C3_LoadReplacesInventoryOnly ==
    [][ (cmd'.choice = "9" /\ raised' = "None" /\ iterations' # iterations)
        => /\ file' = file
           /\ HoldsExactly(inventory', ProductsOfFile)
           /\ transactions' = transactions ]_vars

\* C3 witness: a load succeeded while the log holds a transaction of a
\* product that the loaded Inventory does not hold.
C3_Witness ==
    /\ Done("9")
    /\ inventory # <<>>
    /\ \E k \in 1..Len(transactions) : ~HasKey(inventory, transactions[k].product_id)

\* C4: an import that fails (malformed numeric field in any row, or a
\* missing file) leaves the shell's Inventory exactly as it was.
C4_FailedLoadKeepsInventory ==
    [][ (cmd'.choice = "9" /\ raised' # "None" /\ iterations' # iterations)
        => inventory' = inventory ]_vars

\* C4 witness: a load failed on a malformed field after an earlier row of the
\* file had been parsed and added (its alert was printed), the shell holding
\* a non-empty Inventory.
C4_Witness ==
    /\ cmd.choice = "9"
    /\ raised = "ValueError"
    /\ alerts # <<>>
    /\ inventory # <<>>

\* C5: when a command raises an error the session continues; only the exit
\* command ends the menu loop.
C5_OnlyExitEndsSession ==
    pc # "menu" => cmd.choice = "0"

\* C6: the transaction at position k of the log has transaction_id k, and
\* the log only grows by appending at its end.
C6_LogContiguousAppendOnly ==
    [][ /\ \/ transactions' = transactions
           \/ /\ Len(transactions') = Len(transactions) + 1
              /\ SubSeq(transactions', 1, Len(transactions)) = transactions
        /\ \A k \in 1..Len(transactions') : transactions'[k].transaction_id = k ]_vars

\* C6 witness: the log holds two transactions, the later one logged by the
\* last command.
C6_Witness ==
    /\ Done("6")
    /\ Len(transactions) >= 2
    /\ transactions[Len(transactions)].product_id = AddressedId

C8_AddThenGet ==
    /\ Done("1") => get_product(inventory, AddedProduct.product_id) = AddedProduct
    /\ \A i, j \in 1..Len(inventory) : inventory[i].key = inventory[j].key => i = j
    /\ \A i \in 1..Len(inventory) : inventory[i].value.product_id = inventory[i].key

\* C8 witness: the last add overwrote an entry: its id is held at the first
\* of two places, where only an id that was already present can be.
C8_Witness ==
    /\ Done("1")
    /\ Len(inventory) = 2
    /\ inventory[1].key = AddedProduct.product_id

\* C9: the turnover report has one line for every product of the Inventory,
\* in its order, with the sum of abs(delta) over the OUT transactions of
\* that product's id, and changes neither the Inventory nor the log.
C9_TurnoverReport ==
    [][ (cmd'.choice = "10" /\ iterations' # iterations)
        => /\ report' = [i \in 1..Len(inventory) |->
                            [name  |-> inventory[i].value.name,
                             units |-> SumOut(transactions,
                                              inventory[i].value.product_id, 1)]]
           /\ inventory' = inventory
           /\ transactions' = transactions ]_vars

\* C9 witness: a report with a line of two units sold, summed from two OUT
\* transactions, with an IN transaction in the log as well.
C9_Witness ==
    /\ Done("10")
    /\ \E i \in 1..Len(report) : report[i].units = 2
    /\ \E k \in 1..Len(transactions) : transactions[k].transaction_type = "IN"

\* C10: an add, a successful update and every row of an import print exactly
\* one low-stock alert when the product then has quantity <= reorder_level,
\* and none when it has quantity > reorder_level.
C10_LowStockAlerts ==
    /\ Done("1") => alerts = AlertFor(AddedProduct)
    /\ (Done("6") /\ HasKey(inventory, AddressedId))
          => alerts = AlertFor(get_product(inventory, AddressedId))
    /\ Done("9") =>
          LET ps == ProductsOfFile
              low == SelectSeq(ps, LAMBDA p : p.quantity <= p.reorder_level)
          IN alerts = [i \in 1..Len(low) |->
                          [name |-> low[i].name, quantity |-> low[i].quantity]]

\* C10 witness: an update brought a product down to exactly its reorder
\* level and the alert was printed.
C10_Witness ==
    /\ Done("6")
    /\ HasKey(inventory, AddressedId)
    /\ get_product(inventory, AddressedId).quantity
           = get_product(inventory, AddressedId).reorder_level
    /\ transactions[Len(transactions)].quantity = -1
    /\ Len(alerts) = 1

====
